---- MODULE Spec2Model ----
(***************************************************************************)
(* GraphQL query outcomes rendered as HTTP responses.                      *)
(*                                                                         *)
(*   graph/src/data/query/error.rs   QueryExecutionError, QueryError,      *)
(*                                   their Display and Serialize impls     *)
(*   server/http/src/response.rs     GraphQLResponse: status code,         *)
(*                                   Serialize, Future::poll               *)
(*                                                                         *)
(* Text is a sequence of tokens.  A token is one character ("1", ":",      *)
(* " ", "\n", ...) or a chunk: a run of characters that holds no line      *)
(* break (a string literal of the source, a word of a field); a chunk of a *)
(* diagnostic holds no digit and no colon either, and no white space at    *)
(* its ends.  Str(t) is the string a text stands for.                      *)
(***************************************************************************)
EXTENDS Integers, Sequences, FiniteSets, TLC

VARIABLES
    input,      \* the outcome the caller is about to hand to GraphQLResponse::new
    result,     \* GraphQLResponse.result (NoResult before construction)
    pc,         \* "start" | "ready" | "done" | "panicked"
    responses   \* the responses the polls returned, in order

vars == <<input, result, pc, responses>>

-----------------------------------------------------------------------------
(* Bounds of the model *)

MaxPos == 2
MaxArgs == 3
MaxSegs == 4
MaxPolls == 2

-----------------------------------------------------------------------------
(* Text *)

NL == "\n"
Label == "query parse error:"
\* a numeric character that is not an ASCII digit (U+00B2, SUPERSCRIPT TWO)
Sup2 == "<U+00B2>"
\* the grave accent (U+0060), which a string of this module cannot hold
Tick == "<U+0060>"

AsciiDigits == <<"0", "1", "2", "3", "4", "5", "6", "7", "8", "9">>

\* char::is_ascii_digit
IsAsciiDigit(c) == \E i \in 1..10 : AsciiDigits[i] = c

\* char::is_numeric: the Unicode numeric characters
IsNumeric(c) == IsAsciiDigit(c) \/ c = Sup2

\* char::is_whitespace
IsWhitespace(c) == c \in {" ", NL, "\t"}

DigitVal(c) == (CHOOSE i \in 1..10 : AsciiDigits[i] = c) - 1

RECURSIVE Str(_)
Str(t) == IF t = <<>> THEN "" ELSE Head(t) \o Str(Tail(t))

RECURSIVE Concat(_)
Concat(ts) == IF ts = <<>> THEN <<>> ELSE Head(ts) \o Concat(Tail(ts))

\* slice::join
RECURSIVE Join(_, _)
Join(ts, sep) ==
    IF ts = <<>> THEN <<>>
    ELSE IF Len(ts) = 1 THEN ts[1]
    ELSE ts[1] \o sep \o Join(Tail(ts), sep)

HasLineBreak(t) == \E i \in 1..Len(t) : t[i] = NL

\* "{}" of an unsigned integer
RECURSIVE FmtNat(_)
FmtNat(n) == IF n < 10 THEN <<AsciiDigits[n + 1]>>
             ELSE FmtNat(n \div 10) \o <<AsciiDigits[(n % 10) + 1]>>

-----------------------------------------------------------------------------
(* The values the failures carry *)

\* graphql_parser::Pos: 1-based line and column
Positions == [line : 1..MaxPos, column : 1..MaxPos]

\* String fields: empty, one word, two lines
Strs == {<<>>, <<"a">>, <<"a", NL, "b">>}

\* Vec<String> fields
StrLists == {<<>>, << <<"a">> >>, << <<"a">>, <<"b">> >>, << <<"a", NL, "b">> >>}

\* q::Value: an integer or a string
Values == {[kind |-> "Int", n |-> 7],
           [kind |-> "String", s |-> <<"a">>],
           [kind |-> "String", s |-> <<"a", NL, "b">>]}

\* Escaping of a string by "{:?}" (str's Debug): a line break becomes \n
RECURSIVE EscapeDebug(_)
EscapeDebug(t) ==
    IF t = <<>> THEN <<>>
    ELSE (IF Head(t) = NL THEN <<"\\", "n">> ELSE <<Head(t)>>) \o EscapeDebug(Tail(t))

\* "{}" of a q::Value (graphql_parser's formatter): a string with a line break
\* is written as a block string over several lines, any other string quoted
ValueDisplay(v) ==
    IF v.kind = "Int" THEN FmtNat(v.n)
    ELSE IF HasLineBreak(v.s) THEN <<"\"\"\"", NL>> \o v.s \o <<NL, "\"\"\"">>
    ELSE <<"\"">> \o v.s \o <<"\"">>

\* "{}" for "{:?}"
ValueDebug_AsDisplay(v) == ValueDisplay(v)

\* "{:?}" of a q::Value (derived Debug): one line, strings escaped
ValueDebug(v) ==
    IF v.kind = "Int" THEN <<"Int(Number(">> \o FmtNat(v.n) \o <<"))">>
    ELSE <<"String(\"">> \o EscapeDebug(v.s) \o <<"\")">>

\* RangeArgumentsError's argument names (&'static str) and limits (u32)
ArgNames == {"first", "skip", "foo"}
ArgLists == UNION {[1..n -> ArgNames] : n \in 0..MaxArgs}
Limits == {0, 100, 1000}

\* TooComplex's u64 counts and TooDeep's u8 depth
Counts == {0, 7, 100}
Depths == {0, 5, 255}

-----------------------------------------------------------------------------
(* QueryExecutionError *)

UnitVariants ==
    {"OperationNameRequired", "NoRootQueryObjectType", "NoRootSubscriptionObjectType",
     "EmptyQuery", "MultipleSubscriptionFields", "InvalidFilterError", "Timeout",
     "TooExpensive", "Throttled", "EventStreamError", "FulltextQueryRequiresFilter"}

OneStringVariants ==
    {"OperationNotFound", "NotSupported", "NamedTypeError", "AbstractTypeError",
     "ResolveEntitiesError", "OrderByNotSupportedForType", "SubgraphDeploymentIdError",
     "ListFilterError", "EntityParseError", "StoreError", "EmptySelectionSet",
     "Unimplemented", "UndefinedFragment", "Panic"}

TwoStringVariants ==
    {"OrderByNotSupportedError", "FilterNotSupportedError", "EntityFieldError",
     "ValueParseError", "AttributeTypeError"}

PosStringVariants ==
    {"NonNullError", "ListValueError", "MissingArgumentError",
     "InvalidVariableTypeError", "MissingVariableError"}

\* The variants of the enum, with the values of their fields.  s, t, u are
\* the String fields in declaration order.
QueryExecutionErrors ==
    [v : UnitVariants]
    \cup [v : OneStringVariants, s : Strs]
    \cup [v : TwoStringVariants, s : Strs, t : Strs]
    \cup [v : PosStringVariants, pos : Positions, s : Strs]
    \cup [v : {"InvalidArgumentError"}, pos : Positions, s : Strs, value : Values]
    \cup [v : {"ResolveEntityError"}, id : {<<"Qm">>}, s : Strs, t : Strs, u : Strs]
    \cup [v : {"UnknownField"}, pos : Positions, s : Strs, t : Strs]
    \cup [v : {"RangeArgumentsError"}, args : ArgLists, limit : Limits]
    \cup [v : {"ListTypesError"}, s : Strs, list : StrLists]
    \cup [v : {"AmbiguousDerivedFromResult"}, pos : Positions, s : Strs, t : Strs, u : Strs]
    \cup [v : {"EnumCoercionError"}, pos : Positions, s : Strs, value : Values, t : Strs,
          list : StrLists]
    \cup [v : {"ScalarCoercionError"}, pos : Positions, s : Strs, value : Values, t : Strs]
    \cup [v : {"TooComplex"}, n : Counts, max : Counts]
    \cup [v : {"TooDeep"}, max : Depths]
    \cup [v : {"IncorrectPrefetchResult"}, slow : Values, prefetch : Values]

\* The clause of another name with its grammar mended
RangeClause_Mended(arg, first_limit) ==
    CASE arg = "first" ->
            <<"Value of \"first\" must be between 1 and ">> \o FmtNat(first_limit)
      [] arg = "skip" -> <<"Value of \"skip\" must be greater than 0">>
      [] OTHER -> <<"Value of \"", arg, "\" must be an integer">>

\* One clause of RangeArgumentsError's message
RangeClause(arg, first_limit) ==
    CASE arg = "first" ->
            <<"Value of \"first\" must be between 1 and ">> \o FmtNat(first_limit)
      [] arg = "skip" -> <<"Value of \"skip\" must be greater than 0">>
      [] OTHER -> <<"Value of \"", arg, "\" is must be an integer">>

RangeMessage(args, first_limit) ==
    Join([i \in 1..Len(args) |-> RangeClause(args[i], first_limit)], <<", ">>)

\* The arguments of the format string taken for each other
TooComplexMessage_Swapped(complexity, max_complexity) ==
    <<"query potentially returns ", Tick>> \o FmtNat(max_complexity)
    \o <<Tick, " entities or more and thereby exceeds the limit of ", Tick>>
    \o FmtNat(complexity)
    \o <<Tick, " entities. Possible solutions are ", "reducing the depth of the query",
         ", ", "querying fewer relationships", " or ", "using ", Tick, "first", Tick,
         " to return smaller collections">>

TooComplexMessage(complexity, max_complexity) ==
    <<"query potentially returns ", Tick>> \o FmtNat(complexity)
    \o <<Tick, " entities or more and thereby exceeds the limit of ", Tick>>
    \o FmtNat(max_complexity)
    \o <<Tick, " entities. Possible solutions are ", "reducing the depth of the query",
         ", ", "querying fewer relationships", " or ", "using ", Tick, "first", Tick,
         " to return smaller collections">>

TooDeepMessage(max_depth) ==
    <<"query has a depth that exceeds the limit of ", Tick>> \o FmtNat(max_depth) \o <<Tick>>

\* impl fmt::Display for QueryExecutionError
DisplayExecutionError(e) ==
    CASE e.v = "OperationNameRequired" -> <<"Operation name required">>
      [] e.v = "OperationNotFound" -> <<"Operation name not found ", Tick>> \o e.s \o <<Tick>>
      [] e.v = "NotSupported" -> <<"Not supported: ">> \o e.s
      [] e.v = "NoRootQueryObjectType" -> <<"No root Query type defined in the schema">>
      [] e.v = "NoRootSubscriptionObjectType" ->
            <<"No root Subscription type defined in the schema">>
      [] e.v = "NonNullError" ->
            <<"Null value resolved for non-null field ", Tick>> \o e.s \o <<Tick>>
      [] e.v = "ListValueError" ->
            <<"Non-list value resolved for list field ", Tick>> \o e.s \o <<Tick>>
      [] e.v = "NamedTypeError" -> <<"Failed to resolve named type ", Tick>> \o e.s \o <<Tick>>
      [] e.v = "AbstractTypeError" ->
            <<"Failed to resolve abstract type ", Tick>> \o e.s \o <<Tick>>
      [] e.v = "InvalidArgumentError" ->
            <<"Invalid value provided for argument ", Tick>> \o e.s \o <<Tick, ": ">>
            \o ValueDebug(e.value)
      [] e.v = "MissingArgumentError" ->
            <<"No value provided for required argument: ", Tick>> \o e.s \o <<Tick>>
      [] e.v = "InvalidVariableTypeError" ->
            <<"Variable ", Tick>> \o e.s \o <<Tick, " must have an input type">>
      [] e.v = "MissingVariableError" ->
            <<"No value provided for required variable ", Tick>> \o e.s \o <<Tick>>
      [] e.v = "ResolveEntityError" ->
            <<"Failed to get ", Tick>> \o e.s \o <<Tick, " entity with ID ", Tick>> \o e.t
            \o <<Tick, " from store: ">> \o e.u
      [] e.v = "ResolveEntitiesError" -> <<"Failed to get entities from store: ">> \o e.s
      [] e.v = "OrderByNotSupportedError" ->
            <<"Ordering by ", Tick>> \o e.t \o <<Tick, " is not supported for type ", Tick>> \o e.s
            \o <<Tick>>
      [] e.v = "OrderByNotSupportedForType" ->
            <<"Ordering by ", Tick>> \o e.s \o <<Tick, " fields is not supported">>
      [] e.v = "FilterNotSupportedError" ->
            <<"Filter not supported by value ", Tick>> \o e.s \o <<Tick, ": ", Tick>> \o e.t \o <<Tick>>
      [] e.v = "UnknownField" ->
            <<"Type ", Tick>> \o e.s \o <<Tick, " has no field ", Tick>> \o e.t \o <<Tick>>
      [] e.v = "EmptyQuery" -> <<"The query is empty">>
      [] e.v = "MultipleSubscriptionFields" ->
            <<"Only a single top-level field is allowed in subscriptions">>
      [] e.v = "SubgraphDeploymentIdError" ->
            <<"Failed to get subgraph ID from type: ", Tick>> \o e.s \o <<Tick>>
      [] e.v = "RangeArgumentsError" -> RangeMessage(e.args, e.limit)
      [] e.v = "InvalidFilterError" -> <<"Filter must by an object">>
      [] e.v = "EntityFieldError" ->
            <<"Entity ", Tick>> \o e.s \o <<Tick, " has no attribute ", Tick>> \o e.t \o <<Tick>>
      [] e.v = "ListTypesError" ->
            <<"Values passed to filter ", Tick>> \o e.s
            \o <<Tick, " must be of the same type but are of different types: ">>
            \o Join(e.list, <<", ">>)
      [] e.v = "ListFilterError" ->
            <<"Non-list value passed to ", Tick>> \o e.s \o <<Tick, " filter">>
      [] e.v = "ValueParseError" ->
            <<"Failed to decode ", Tick>> \o e.s \o <<Tick, " value: ", Tick>> \o e.t \o <<Tick>>
      [] e.v = "AttributeTypeError" ->
            <<"Query contains value with invalid type ", Tick>> \o e.t \o <<Tick, ": ", Tick>> \o e.s
            \o <<Tick>>
      [] e.v = "EntityParseError" -> <<"Broken entity found in store: ">> \o e.s
      [] e.v = "StoreError" -> <<"Store error: ">> \o e.s
      [] e.v = "Timeout" -> <<"Query timed out">>
      [] e.v = "EmptySelectionSet" ->
            <<"Selection set for type ", Tick>> \o e.s \o <<Tick, " is empty">>
      [] e.v = "AmbiguousDerivedFromResult" ->
            <<"Ambiguous result for derived field ", Tick>> \o e.s \o <<Tick, ": Multiple ", Tick>>
            \o e.t \o <<Tick, " entities refer back via ", Tick>> \o e.u \o <<Tick>>
      [] e.v = "Unimplemented" -> <<"Feature ", Tick>> \o e.s \o <<Tick, " is not yet implemented">>
      [] e.v = "EnumCoercionError" ->
            <<"Failed to coerce value ", Tick>> \o ValueDisplay(e.value) \o <<Tick, " of field ", Tick>>
            \o e.s \o <<Tick, " to enum type ", Tick>> \o e.t \o <<Tick, ". Possible values are: ">>
            \o Join(e.list, <<", ">>)
      [] e.v = "ScalarCoercionError" ->
            <<"Failed to coerce value ", Tick>> \o ValueDisplay(e.value) \o <<Tick, " of field ", Tick>>
            \o e.s \o <<Tick, " to scalar type ", Tick>> \o e.t \o <<Tick>>
      [] e.v = "TooComplex" -> TooComplexMessage(e.n, e.max)
      [] e.v = "TooDeep" -> TooDeepMessage(e.max)
      [] e.v = "UndefinedFragment" -> <<"fragment ", Tick>> \o e.s \o <<Tick, " is not defined">>
      [] e.v = "IncorrectPrefetchResult" ->
            <<"Running query with prefetch and slow query resolution yielded ",
              "different results. This is a bug. Please open an issue at ",
              "https://github.com/graphprotocol/graph-node">>
      [] e.v = "Panic" -> <<"panic processing query: ">> \o e.s
      [] e.v = "EventStreamError" -> <<"error in the subscription event stream">>
      [] e.v = "FulltextQueryRequiresFilter" ->
            <<"fulltext search queries can only use EntityFilter::Equal">>
      [] e.v = "TooExpensive" -> <<"query is too expensive">>
      [] e.v = "Throttled" ->
            <<"service is overloaded and can not run the query right now. ",
              "Please try again in a few minutes">>

-----------------------------------------------------------------------------
(* JSON: an object is the sequence of its <<key, value>> entries in the     *)
(* order they are written; a number is its decimal digits                   *)

JStr(t) == [t |-> "str", s |-> t]
JNum(digits) == [t |-> "num", s |-> digits]
JBool(b) == [t |-> "bool", b |-> b]
JArr(items) == [t |-> "arr", items |-> items]
JNull == [t |-> "null"]
JObj(entries) == [t |-> "obj", entries |-> entries]

Keys(obj) == {obj.entries[i][1] : i \in 1..Len(obj.entries)}
HasKey(obj, k) == k \in Keys(obj)
Get(obj, k) == obj.entries[CHOOSE i \in 1..Len(obj.entries) : obj.entries[i][1] = k][2]

-----------------------------------------------------------------------------
(* QueryError *)

\* std's FromUtf8Error: where the bytes stop being UTF-8, and the length of
\* the invalid sequence (0: the input ended inside a sequence)
EncodingErrors == [valid_up_to : 0..1, error_len : 0..1]

DisplayEncodingError(u) ==
    IF u.error_len = 0
    THEN <<"incomplete utf-8 byte sequence from index ">> \o FmtNat(u.valid_up_to)
    ELSE <<"invalid utf-8 sequence of ">> \o FmtNat(u.error_len)
         \o <<" bytes from index ">> \o FmtNat(u.valid_up_to)

\* The diagnostics of parse failures: up to MaxSegs of these pieces in a row,
\* and the two diagnostics of the scenario of a malformed query "<><?"
BigNumber == <<"4", "2", "9", "4", "9", "6", "7", "2", "9", "6">>
Segments == {<<Label>>, <<"1">>, <<":">>, <<"1", ":", "2">>, <<NL>>, <<"x">>,
             <<Sup2>>, BigNumber}

SpecDiag == <<Label, "1", ",", "1", ":", " ", "unexpected character '<'", NL,
              "Expected ...">>

ParserDiag == <<Label, " ", "Parse error at", " ", "1", ":", "1", NL,
                "Unexpected", " ", Tick, "unexpected character '<'", Tick, NL,
                "Expected ...", NL>>

Diagnostics ==
    {Concat(segs) : segs \in UNION {[1..n -> Segments] : n \in 0..MaxSegs}}
    \cup {SpecDiag, ParserDiag}

QueryErrors ==
    [k : {"EncodingError"}, e : EncodingErrors]
    \cup [k : {"ParseError"}, e : Diagnostics]
    \cup [k : {"ExecutionError"}, e : QueryExecutionErrors]

\* impl fmt::Display for QueryError
DisplayQueryError(q) ==
    CASE q.k = "EncodingError" -> DisplayEncodingError(q.e)
      [] q.k = "ExecutionError" -> DisplayExecutionError(q.e)
      [] q.k = "ParseError" -> q.e

-----------------------------------------------------------------------------
(* The string operations of the ParseError arm *)

\* str::replace(label, ""): every occurrence of the label goes
Replace(t, label) == SelectSeq(t, LAMBDA c : c # label)

RECURSIVE TrimStart(_)
TrimStart(t) ==
    IF t # <<>> /\ IsWhitespace(Head(t)) THEN TrimStart(Tail(t)) ELSE t

RECURSIVE TrimEnd(_)
TrimEnd(t) ==
    IF t # <<>> /\ IsWhitespace(t[Len(t)]) THEN TrimEnd(SubSeq(t, 1, Len(t) - 1)) ELSE t

\* trim_start for trim
Trim_StartOnly(t) == TrimStart(t)

\* str::trim
Trim(t) == TrimEnd(TrimStart(t))

\* str::find(c): the first index of c, 0 for None
Find(t, c) ==
    IF \E i \in 1..Len(t) : t[i] = c
    THEN CHOOSE i \in 1..Len(t) : t[i] = c /\ \A j \in 1..(i - 1) : t[j] # c
    ELSE 0

\* str::rfind(c): the last index of c, 0 for None
RFind(t, c) ==
    IF \E i \in 1..Len(t) : t[i] = c
    THEN CHOOSE i \in 1..Len(t) : t[i] = c /\ \A j \in (i + 1)..Len(t) : t[j] # c
    ELSE 0

\* str::splitn(2, '\n'): the text up to the first line break and the text
\* after it; the text alone when it holds no line break
Splitn2(t) ==
    LET i == Find(t, NL)
    IN  IF i = 0 THEN <<t>> ELSE <<SubSeq(t, 1, i - 1), SubSeq(t, i + 1, Len(t))>>

\* str::split_at(mid), mid the index of a character of t: the text before
\* that character, and the text from it on
SplitAt(t, mid) == <<SubSeq(t, 1, mid - 1), SubSeq(t, mid, Len(t))>>

\* str::matches(char::is_numeric).collect::<String>()
NumericChars(t) == SelectSeq(t, IsNumeric)

RECURSIVE StripZeros(_)
StripZeros(d) == IF Len(d) > 1 /\ Head(d) = "0" THEN StripZeros(Tail(d)) ELSE d

\* decimal digits of equal length: a <= b
RECURSIVE DigitsLeq(_, _)
DigitsLeq(a, b) ==
    IF a = <<>> THEN TRUE
    ELSE IF DigitVal(Head(a)) # DigitVal(Head(b)) THEN DigitVal(Head(a)) < DigitVal(Head(b))
    ELSE DigitsLeq(Tail(a), Tail(b))

\* u32::MAX = 4294967295
U32MaxDigits == <<"4", "2", "9", "4", "9", "6", "7", "2", "9", "5">>

FitsU32(d) ==
    \/ Len(d) < Len(U32MaxDigits)
    \/ Len(d) = Len(U32MaxDigits) /\ DigitsLeq(d, U32MaxDigits)

\* parse without the check against u32::MAX (a wider integer type)
ParseU32_NoOverflow(t) ==
    IF t = <<>> \/ \E i \in 1..Len(t) : ~IsAsciiDigit(t[i]) THEN [ok |-> FALSE]
    ELSE [ok |-> TRUE, n |-> StripZeros(t)]

\* str::parse::<u32>() of a text without sign: Err for the empty text, for a
\* character that is no ASCII digit and for a value above u32::MAX
ParseU32(t) ==
    IF t = <<>> \/ \E i \in 1..Len(t) : ~IsAsciiDigit(t[i]) THEN [ok |-> FALSE]
    ELSE IF ~FitsU32(StripZeros(t)) THEN [ok |-> FALSE]
    ELSE [ok |-> TRUE, n |-> StripZeros(t)]

-----------------------------------------------------------------------------
(* impl Serialize for QueryError *)

\* The orders in which a HashMap of the keys "line" and "column" may iterate
KeyOrders == {<<"line", "column">>, <<"column", "line">>}

\* The HashMap {"line": line, "column": column} as serde writes it out
LocationMap(line, column, order) ==
    JObj([i \in 1..2 |-> <<order[i], JNum(IF order[i] = "line" THEN line ELSE column)>>])

\* SerializableValue(&q::Value)
SerializableValue(v) == IF v.kind = "Int" THEN JNum(FmtNat(v.n)) ELSE JStr(v.s)

\* The variants matched by the arm that serializes the position
PositionVariants ==
    {"NonNullError", "ListValueError", "InvalidArgumentError", "MissingArgumentError",
     "InvalidVariableTypeError", "MissingVariableError", "AmbiguousDerivedFromResult",
     "EnumCoercionError", "ScalarCoercionError", "UnknownField"}

Panicked == [ok |-> FALSE]
Written(json) == [ok |-> TRUE, json |-> json]

\* The ParseError arm splitting at the first colon of the first line (find for rfind)
ParseErrorArm_FirstColon(q, order) ==
    LET msg == DisplayQueryError(q)
        inner_msg == Trim(Replace(msg, Label))
        parts == Splitn2(inner_msg)
        colon_pos == Find(parts[1], ":")
        ab == SplitAt(parts[1], colon_pos)
        line == ParseU32(NumericChars(ab[1]))
        column == ParseU32(NumericChars(ab[2]))
    IN  IF colon_pos = 0 THEN Panicked
        ELSE IF ~line.ok THEN Panicked
        ELSE IF ~column.ok THEN Panicked
        ELSE IF Len(parts) < 2 THEN Panicked
        ELSE Written(JObj(<< <<"locations", JArr(<<LocationMap(line.n, column.n, order)>>)>>,
                             <<"message", JStr(parts[2])>> >>))

\* The ParseError arm: the entries written before "message" and the message,
\* or a panic (unwrap of None or Err, parts[1] out of bounds)
ParseErrorArm(q, order) ==
    LET msg == DisplayQueryError(q)
        inner_msg == Trim(Replace(msg, Label))
        parts == Splitn2(inner_msg)
        colon_pos == RFind(parts[1], ":")
        ab == SplitAt(parts[1], colon_pos)
        line == ParseU32(NumericChars(ab[1]))
        column == ParseU32(NumericChars(ab[2]))
    IN  IF colon_pos = 0 THEN Panicked
        ELSE IF ~line.ok THEN Panicked
        ELSE IF ~column.ok THEN Panicked
        ELSE IF Len(parts) < 2 THEN Panicked
        ELSE Written(JObj(<< <<"locations", JArr(<<LocationMap(line.n, column.n, order)>>)>>,
                             <<"message", JStr(parts[2])>> >>))

\* The position arm with pos.line and pos.column taken for each other
PositionArm_Swapped(q, order) ==
    Written(JObj(<< <<"locations",
                      JArr(<<LocationMap(FmtNat(q.e.pos.column), FmtNat(q.e.pos.line),
                                         order)>>)>>,
                    <<"message", JStr(DisplayQueryError(q))>> >>))

\* The arm of the position-carrying execution errors
PositionArm(q, order) ==
    Written(JObj(<< <<"locations",
                      JArr(<<LocationMap(FmtNat(q.e.pos.line), FmtNat(q.e.pos.column),
                                         order)>>)>>,
                    <<"message", JStr(DisplayQueryError(q))>> >>))

\* The IncorrectPrefetchResult arm with slow and prefetch taken for each other
PrefetchArm_Swapped(q) ==
    Written(JObj(<< <<"incorrectPrefetch", JBool(TRUE)>>,
                    <<"single", SerializableValue(q.e.prefetch)>>,
                    <<"prefetch", SerializableValue(q.e.slow)>>,
                    <<"message", JStr(DisplayQueryError(q))>> >>))

\* The IncorrectPrefetchResult arm
PrefetchArm(q) ==
    Written(JObj(<< <<"incorrectPrefetch", JBool(TRUE)>>,
                    <<"single", SerializableValue(q.e.slow)>>,
                    <<"prefetch", SerializableValue(q.e.prefetch)>>,
                    <<"message", JStr(DisplayQueryError(q))>> >>))

\* The remaining arm: the message alone
MessageArm(q) == Written(JObj(<< <<"message", JStr(DisplayQueryError(q))>> >>))

\* QueryError::serialize into serde_json: the object written, or a panic
SerializeQueryError(q, order) ==
    CASE q.k = "ParseError" -> ParseErrorArm(q, order)
      [] q.k = "ExecutionError" /\ q.e.v \in PositionVariants -> PositionArm(q, order)
      [] q.k = "ExecutionError" /\ q.e.v = "IncorrectPrefetchResult" -> PrefetchArm(q)
      [] OTHER -> MessageArm(q)

-----------------------------------------------------------------------------
(* GraphQLServerError and QueryResult, the two sides of an outcome *)

GraphQLServerErrors ==
    [c : {"ClientError", "InternalError"}, s : Strs]
    \cup [c : {"Canceled"}]
    \cup [c : {"QueryError"}, q : QueryErrors]

\* impl fmt::Display for GraphQLServerError
DisplayServerError(e) ==
    CASE e.c = "Canceled" -> <<"GraphQL server error (query was canceled)">>
      [] e.c = "ClientError" -> <<"GraphQL server error (client error): ">> \o e.s
      [] e.c = "InternalError" -> <<"GraphQL server error (internal error): ">> \o e.s
      [] e.c = "QueryError" ->
            <<"GraphQL server error (query error): ">> \o DisplayQueryError(e.q)

\* impl Serialize for GraphQLServerError: a query error serializes itself,
\* any other error is an object holding its message
SerializeServerError(e, order) ==
    IF e.c = "QueryError" THEN SerializeQueryError(e.q, order)
    ELSE Written(JObj(<< <<"message", JStr(DisplayServerError(e))>> >>))

\* A QueryResult, known here by its own JSON representation alone
EmptyData == JObj(<< <<"data", JObj(<<>>)>> >>)
Payloads ==
    {EmptyData,
     JObj(<< <<"data", JObj(<< <<"a", JNum(<<"7">>)>> >>)>> >>),
     JObj(<< <<"errors", JArr(<<JObj(<< <<"message", JStr(<<"x">>)>> >>)>>)>> >>)}

QueryResults == [repr : Payloads]

\* impl Serialize for QueryResult
SerializeQueryResult(r) == Written(r.repr)

\* Result<QueryResult, GraphQLServerError>
Outcomes == [ok : {TRUE}, value : QueryResults] \cup [ok : {FALSE}, err : GraphQLServerErrors]

-----------------------------------------------------------------------------
(* GraphQLResponse *)

OK == 200
BAD_REQUEST == 400
INTERNAL_SERVER_ERROR == 500

\* status_code_from_result with QueryError moved to the arm of the server's own errors
StatusCodeFromResult_QueryError500(r) ==
    CASE r.ok -> OK
      [] ~r.ok /\ r.err.c \in {"ClientError"} -> BAD_REQUEST
      [] ~r.ok /\ r.err.c \in {"QueryError", "Canceled", "InternalError"} ->
            INTERNAL_SERVER_ERROR

\* GraphQLResponse::status_code_from_result
StatusCodeFromResult(r) ==
    CASE r.ok -> OK
      [] ~r.ok /\ r.err.c \in {"ClientError", "QueryError"} -> BAD_REQUEST
      [] ~r.ok /\ r.err.c \in {"Canceled", "InternalError"} -> INTERNAL_SERVER_ERROR

\* serialize writing a null "data" entry beside "errors"
SerializeResponse_WithData(r, order) ==
    IF r.ok THEN SerializeQueryResult(r.value)
    ELSE LET e == SerializeServerError(r.err, order)
         IN  IF e.ok
             THEN Written(JObj(<< <<"data", JNull>>, <<"errors", JArr(<<e.json>>)>> >>))
             ELSE Panicked

\* impl Serialize for GraphQLResponse
SerializeResponse(r, order) ==
    IF r.ok THEN SerializeQueryResult(r.value)
    ELSE LET e == SerializeServerError(r.err, order)
         IN  IF e.ok THEN Written(JObj(<< <<"errors", JArr(<<e.json>>)>> >>))
             ELSE Panicked

Headers ==
    << <<"Access-Control-Allow-Origin", "*">>,
       <<"Access-Control-Allow-Headers", "Content-Type">>,
       <<"Access-Control-Allow-Methods", "GET, OPTIONS, POST">> >>

-----------------------------------------------------------------------------
(* The state machine: an outcome is handed to GraphQLResponse::new and the  *)
(* future is polled                                                         *)

NoResult == [none |-> TRUE]

Init ==
    /\ input \in Outcomes
    /\ result = NoResult
    /\ pc = "start"
    /\ responses = <<>>

\* GraphQLResponse::new
New ==
    /\ pc = "start"
    /\ result' = input
    /\ pc' = "ready"
    /\ UNCHANGED <<input, responses>>

\* <GraphQLResponse as Future>::poll: Ok(Async::Ready(response)), or the
\* panic of the serializer.  order is the iteration order of the HashMap
\* this poll builds.
Poll(order) ==
    /\ pc \in {"ready", "done"}
    /\ Len(responses) < MaxPolls
    /\ LET status_code == StatusCodeFromResult(result)
           json == SerializeResponse(result, order)
       IN  IF json.ok
           THEN /\ responses' = Append(responses,
                        [status |-> status_code, headers |-> Headers, body |-> json.json])
                /\ pc' = "done"
           ELSE /\ responses' = responses
                /\ pc' = "panicked"
    /\ UNCHANGED <<input, result>>

Next == New \/ \E order \in KeyOrders : Poll(order)

Spec == Init /\ [][Next]_vars

-----------------------------------------------------------------------------
(* Reading a response *)

Polled == pc = "done" /\ responses # <<>>

IsFailure(r) == r # NoResult /\ ~r.ok
IsQueryError(r) == IsFailure(r) /\ r.err.c = "QueryError"
IsExecutionError(r) == IsQueryError(r) /\ r.err.q.k = "ExecutionError"
IsParseError(r) == IsQueryError(r) /\ r.err.q.k = "ParseError"

\* The one entry of a failure body's "errors" array
ErrorObject(resp) == Get(resp.body, "errors").items[1]
MessageOf(resp) == Get(ErrorObject(resp), "message").s

-----------------------------------------------------------------------------
(* C1: the status of every response is decided by the top-level category   *)
(* of the outcome alone: success gives 200, ClientError and QueryError give *)
(* 400, Canceled and InternalError give 500, and there is no other status.  *)
C1_StatusByCategory ==
    \A i \in 1..Len(responses) :
        LET st == responses[i].status
        IN  /\ st \in {200, 400, 500}
            /\ st = 200 <=> result.ok
            /\ st = 400 <=> (~result.ok /\ result.err.c \in {"ClientError", "QueryError"})
            /\ st = 500 <=> (~result.ok /\ result.err.c \in {"Canceled", "InternalError"})

C1_Witness ==
    /\ Polled
    /\ IsFailure(result) /\ result.err.c = "Canceled"
    /\ responses[1].status = 500

(* C2: a success body is exactly the payload's own representation, with the *)
(* payload's keys and no other; a failure body is an object whose only key  *)
(* is "errors", holding an array of exactly one entry, and has no "data".   *)
C2_BodyShape ==
    \A i \in 1..Len(responses) :
        LET body == responses[i].body
        IN  IF result.ok
            THEN /\ body = result.value.repr
                 /\ Keys(body) = Keys(result.value.repr)
            ELSE /\ body.t = "obj"
                 /\ Len(body.entries) = 1
                 /\ Keys(body) = {"errors"}
                 /\ ~HasKey(body, "data")
                 /\ Get(body, "errors").t = "arr"
                 /\ Len(Get(body, "errors").items) = 1

C2_Witness ==
    /\ Polled
    /\ IsFailure(result)
    /\ Keys(responses[1].body) = {"errors"}
    /\ Len(Get(responses[1].body, "errors").items) = 1

C2_WitnessSuccess ==
    /\ Polled
    /\ result.ok
    /\ responses[1].body = EmptyData


C3_PositionCarrying ==
    {"NonNullError", "ListValueError", "InvalidArgumentError", "MissingArgumentError",
     "InvalidVariableTypeError", "MissingVariableError", "AmbiguousDerivedFromResult",
     "EnumCoercionError", "ScalarCoercionError", "UnknownField"}

(* C3: for each of the ten position-carrying execution failures the error   *)
(* object holds "locations", an array of one object whose keys are "line"   *)
(* and "column" with the line and column stored on the variant; for every   *)
(* other execution failure (EmptySelectionSet among them) the error object  *)
(* has no "locations" key.                                                  *)
C3_Locations ==
    \A i \in 1..Len(responses) :
        IsExecutionError(result) =>
            LET e == result.err.q.e
                obj == ErrorObject(responses[i])
            IN  IF e.v \in C3_PositionCarrying
                THEN /\ HasKey(obj, "locations")
                     /\ Get(obj, "locations").t = "arr"
                     /\ Len(Get(obj, "locations").items) = 1
                     /\ LET loc == Get(obj, "locations").items[1]
                        IN  /\ Keys(loc) = {"line", "column"}
                            /\ Len(loc.entries) = 2
                            /\ Get(loc, "line") = JNum(<<ToString(e.pos.line)>>)
                            /\ Get(loc, "column") = JNum(<<ToString(e.pos.column)>>)
                ELSE ~HasKey(obj, "locations")

C3_Witness ==
    /\ Polled
    /\ IsExecutionError(result)
    /\ result.err.q.e.v = "UnknownField"
    /\ result.err.q.e.pos = [line |-> 1, column |-> 2]
    /\ Get(ErrorObject(responses[1]), "locations").items[1].entries
         = << <<"column", JNum(<<"2">>)>>, <<"line", JNum(<<"1">>)>> >>

C3_WitnessNoLocations ==
    /\ Polled
    /\ IsExecutionError(result)
    /\ result.err.q.e.v = "EmptySelectionSet"
    /\ Keys(ErrorObject(responses[1])) = {"message"}

(* C4: the error object of IncorrectPrefetchResult{slow, prefetch} has      *)
(* exactly the four keys "incorrectPrefetch" (true), "single" (the slow     *)
(* value), "prefetch" (the prefetch value) and "message", and so no         *)
(* "locations"; the error object of every other request failure has the    *)
(* key "message" alone or the keys "locations" and "message".               *)
C4_ErrorObjectKeys ==
    \A i \in 1..Len(responses) :
        IsQueryError(result) =>
            LET q == result.err.q
                obj == ErrorObject(responses[i])
            IN  IF q.k = "ExecutionError" /\ q.e.v = "IncorrectPrefetchResult"
                THEN /\ Len(obj.entries) = 4
                     /\ Keys(obj) = {"incorrectPrefetch", "single", "prefetch", "message"}
                     /\ Get(obj, "incorrectPrefetch") = JBool(TRUE)
                     /\ Get(obj, "single") = SerializableValue(q.e.slow)
                     /\ Get(obj, "prefetch") = SerializableValue(q.e.prefetch)
                     /\ ~HasKey(obj, "locations")
                ELSE /\ Len(obj.entries) \in {1, 2}
                     /\ Len(obj.entries) = Cardinality(Keys(obj))
                     /\ "message" \in Keys(obj)
                     /\ Keys(obj) \subseteq {"message", "locations"}

C4_Witness ==
    /\ Polled
    /\ IsExecutionError(result)
    /\ result.err.q.e.v = "IncorrectPrefetchResult"
    /\ result.err.q.e.slow # result.err.q.e.prefetch
    /\ Len(ErrorObject(responses[1]).entries) = 4


C5_Expected(text, obj) ==
    \E n \in 1..Len(text) :
        /\ text[n] = NL
        /\ \A j \in 1..(n - 1) : text[j] # NL
        /\ \E c \in 1..(n - 1) :
            /\ text[c] = ":"
            /\ \A j \in (c + 1)..(n - 1) : text[j] # ":"
            /\ Len(obj.entries) = 2
            /\ Keys(obj) = {"locations", "message"}
            /\ Get(obj, "locations").t = "arr"
            /\ Len(Get(obj, "locations").items) = 1
            /\ LET loc == Get(obj, "locations").items[1]
               IN  /\ Keys(loc) = {"line", "column"}
                   /\ Len(loc.entries) = 2
                   /\ Get(loc, "line")
                        = JNum(StripZeros(SelectSeq(SubSeq(text, 1, c - 1), IsNumeric)))
                   /\ Get(loc, "column")
                        = JNum(StripZeros(SelectSeq(SubSeq(text, c + 1, n - 1), IsNumeric)))
            /\ Get(obj, "message") = JStr(SubSeq(text, n + 1, Len(text)))

C5_StripLeadingLabel(d) == IF d # <<>> /\ Head(d) = Label THEN Tail(d) ELSE d

(* C5 as stated: for a parse failure the serializer strips a leading label, *)
(* takes the first line, finds its last colon, reports the digits left of   *)
(* it as "line" and the digits right of it as "column", and "message" is    *)
(* the remainder of the diagnostic after the first line.                    *)
C5_Original ==
    \A i \in 1..Len(responses) :
        IsParseError(result) =>
            C5_Expected(C5_StripLeadingLabel(result.err.q.e), ErrorObject(responses[i]))

(* C5: for a parse failure for which a response is built, the serializer    *)
(* removes every occurrence of the label from the diagnostic and trims the  *)
(* white space at both ends of what is left; of that text it takes the      *)
(* first line, finds its last colon, and reports as "line" the number       *)
(* formed by the digits left of the colon and as "column" the number formed *)
(* by the digits right of it; "locations" is the one-element array of these *)
(* two and "message" is the rest of that text after its first line.         *)
C5_ParseLocations ==
    \A i \in 1..Len(responses) :
        IsParseError(result) =>
            C5_Expected(Trim(Replace(result.err.q.e, Label)), ErrorObject(responses[i]))

\* a response for a diagnostic that holds the label after its first line
C5_Witness ==
    /\ Polled
    /\ IsParseError(result)
    /\ result.err.q.e = <<"1", ":", "2", NL, Label, "x">>
    /\ Get(ErrorObject(responses[1]), "message") = JStr(<<"x">>)
    /\ Get(Get(ErrorObject(responses[1]), "locations").items[1], "line") = JNum(<<"1">>)
    /\ Get(Get(ErrorObject(responses[1]), "locations").items[1], "column") = JNum(<<"2">>)

C6_Outcome(diag) == IsParseError(result) /\ result.err.q.e = diag

\* the body {"errors":[{"locations":[{"line":1,"column":1}],"message":message}]}
C6_Body(resp, message) ==
    /\ Len(resp.body.entries) = 1
    /\ resp.body.entries[1][1] = "errors"
    /\ Len(Get(resp.body, "errors").items) = 1
    /\ LET obj == ErrorObject(resp)
       IN  /\ Len(obj.entries) = 2
           /\ obj.entries[1][1] = "locations"
           /\ obj.entries[2][1] = "message"
           /\ Len(obj.entries[1][2].items) = 1
           /\ obj.entries[1][2].items[1]
                \in {LocationMap(<<"1">>, <<"1">>, order) : order \in KeyOrders}
           /\ obj.entries[2][2].t = "str"
           /\ Str(obj.entries[2][2].s) = message

(* C6 as stated: the parse failure with the diagnostic                      *)
(*   "query parse error:1,1: unexpected character '<'\nExpected ..."        *)
(* gives status 400 and the body                                            *)
(*   {"errors":[{"locations":[{"line":1,"column":1}],                       *)
(*               "message":"unexpected character '<'\nExpected ..."}]}      *)
C6_Original ==
    (C6_Outcome(SpecDiag) /\ pc \notin {"start", "ready"}) =>
        /\ pc = "done"
        /\ \A i \in 1..Len(responses) :
            /\ responses[i].status = 400
            /\ C6_Body(responses[i], "unexpected character '<'\nExpected ...")

(* C6: the parse failure with the diagnostic of the claim builds no         *)
(* response: nothing numeric follows the last colon of its first line       *)
(* "1,1: unexpected character '<'", and the poll panics.  The parse failure *)
(* with the parser's diagnostic for that query,                             *)
(*   "query parse error: Parse error at 1:1\n                               *)
(*    Unexpected `unexpected character '<'`\nExpected ...\n",               *)
(* gives status 400 and the body                                            *)
(*   {"errors":[{"locations":[{"line":1,"column":1}],                       *)
(*     "message":"Unexpected `unexpected character '<'`\nExpected ..."}]}   *)
C6_ParseScenario ==
    /\ (C6_Outcome(SpecDiag) /\ pc \notin {"start", "ready"}) =>
            pc = "panicked" /\ responses = <<>>
    /\ (C6_Outcome(ParserDiag) /\ pc \notin {"start", "ready"}) =>
        /\ pc = "done"
        /\ \A i \in 1..Len(responses) :
            /\ responses[i].status = 400
            /\ C6_Body(responses[i],
                       "Unexpected " \o Tick \o "unexpected character '<'" \o Tick
                       \o "\nExpected ...")

C6_Witness ==
    /\ Polled
    /\ C6_Outcome(ParserDiag)
    /\ responses[1].status = 400
    /\ Str(MessageOf(responses[1])) # ""

C6_WitnessPanic ==
    /\ pc = "panicked"
    /\ C6_Outcome(SpecDiag)


C7_InternalVariants == {"StoreError", "Panic", "IncorrectPrefetchResult"}

(* C7 as stated: an outcome whose failure is a StoreError, a Panic or an    *)
(* IncorrectPrefetchResult execution failure is answered with status 500.   *)
C7_Original ==
    \A i \in 1..Len(responses) :
        (IsExecutionError(result) /\ result.err.q.e.v \in C7_InternalVariants) =>
            responses[i].status = 500

(* C7: an outcome whose failure is a StoreError, a Panic or an              *)
(* IncorrectPrefetchResult execution failure is answered with status 400,   *)
(* as every other request failure is: an execution failure reaches the      *)
(* response as a QueryError.                                                *)
C7_InternalIs400 ==
    \A i \in 1..Len(responses) :
        (IsExecutionError(result) /\ result.err.q.e.v \in C7_InternalVariants) =>
            responses[i].status = 400

C7_Witness ==
    /\ Polled
    /\ IsExecutionError(result)
    /\ result.err.q.e.v = "Panic"
    /\ responses[1].status = 400

C8_Interpolated(e) ==
    (IF "s" \in DOMAIN e THEN {e.s} ELSE {})
    \cup (IF "t" \in DOMAIN e THEN {e.t} ELSE {})
    \cup (IF "u" \in DOMAIN e THEN {e.u} ELSE {})
    \cup (IF "list" \in DOMAIN e THEN {e.list[k] : k \in 1..Len(e.list)} ELSE {})
    \cup (IF e.v \in {"EnumCoercionError", "ScalarCoercionError"}
          THEN {ValueDisplay(e.value)} ELSE {})

C9_Clause(name, limit) ==
    IF name = "first" THEN "Value of \"first\" must be between 1 and " \o ToString(limit)
    ELSE IF name = "skip" THEN "Value of \"skip\" must be greater than 0"
    ELSE "Value of \"" \o name \o "\" is must be an integer"

RECURSIVE C9_Message(_, _)
C9_Message(args, limit) ==
    IF args = <<>> THEN ""
    ELSE IF Len(args) = 1 THEN C9_Clause(args[1], limit)
    ELSE C9_Clause(args[1], limit) \o ", " \o C9_Message(Tail(args), limit)

C9_Example ==
    "Value of \"first\" must be between 1 and 100, "
    \o "Value of \"skip\" must be greater than 0, "
    \o "Value of \"foo\" is must be an integer"

(* C9: the message of RangeArgumentsError(args, limit) is the clauses of    *)
(* the names of args, in the order of args, joined by ", ": "first" gives   *)
(* Value of "first" must be between 1 and {limit}, "skip" gives the fixed   *)
(* Value of "skip" must be greater than 0, any other name gives             *)
(* Value of "{name}" is must be an integer.  RangeArgumentsError            *)
(* (["first","skip","foo"], 100) gives Value of "first" must be between 1   *)
(* and 100, Value of "skip" must be greater than 0, Value of "foo" is must  *)
(* be an integer.                                                           *)
C9_RangeMessage ==
    \A i \in 1..Len(responses) :
        (IsExecutionError(result) /\ result.err.q.e.v = "RangeArgumentsError") =>
            LET e == result.err.q.e
                m == Str(MessageOf(responses[i]))
            IN  /\ m = C9_Message(e.args, e.limit)
                /\ (e.args = <<"first", "skip", "foo">> /\ e.limit = 100) => m = C9_Example

C9_Witness ==
    /\ Polled
    /\ IsExecutionError(result)
    /\ result.err.q.e.v = "RangeArgumentsError"
    /\ result.err.q.e.args = <<"first", "skip", "foo">>
    /\ result.err.q.e.limit = 100
    /\ Str(MessageOf(responses[1])) = C9_Example

\* The maximal runs of ASCII digits of a text, in order
RECURSIVE C10_DigitRuns(_, _)
C10_DigitRuns(t, run) ==
    IF t = <<>> THEN (IF run = <<>> THEN <<>> ELSE <<run>>)
    ELSE IF IsAsciiDigit(Head(t)) THEN C10_DigitRuns(Tail(t), Append(run, Head(t)))
    ELSE (IF run = <<>> THEN <<>> ELSE <<run>>) \o C10_DigitRuns(Tail(t), <<>>)

C10_Numbers(m) ==
    LET runs == C10_DigitRuns(m, <<>>) IN [k \in 1..Len(runs) |-> Str(runs[k])]

\* The mitigations a message names
C10_Mitigations(m) ==
    {p \in {"reducing the depth of the query", "querying fewer relationships", "first"} :
        \E k \in 1..Len(m) : m[k] = p}

(* C10 as stated: the messages of TooComplex(complexity, max) and of        *)
(* TooDeep(max_depth) each name a computed value and a limit and each       *)
(* suggest mitigations (less depth or fewer relationships, pagination).     *)
C10_Original ==
    \A i \in 1..Len(responses) :
        (IsExecutionError(result) /\ result.err.q.e.v \in {"TooComplex", "TooDeep"}) =>
            LET m == MessageOf(responses[i])
            IN  /\ Len(C10_Numbers(m)) = 2
                /\ C10_Numbers(m)[2] = ToString(result.err.q.e.max)
                /\ C10_Mitigations(m) # {}

(* C10: the message of TooComplex(complexity, max) names the computed       *)
(* complexity and then the limit and suggests reducing the depth, querying  *)
(* fewer relationships and using `first`; the message of TooDeep(max_depth) *)
(* is "query has a depth that exceeds the limit of `{max_depth}`": it names *)
(* the limit alone, the one value the variant carries, and no mitigation.   *)
C10_LimitMessages ==
    \A i \in 1..Len(responses) :
        IsExecutionError(result) =>
            LET e == result.err.q.e
                m == MessageOf(responses[i])
            IN  /\ e.v = "TooComplex" =>
                    /\ C10_Numbers(m) = <<ToString(e.n), ToString(e.max)>>
                    /\ C10_Mitigations(m) = {"reducing the depth of the query",
                                             "querying fewer relationships", "first"}
                    /\ Str(m) = "query potentially returns " \o Tick \o ToString(e.n)
                         \o Tick \o " entities or more and thereby exceeds the limit of "
                         \o Tick \o ToString(e.max) \o Tick
                         \o " entities. Possible solutions are reducing the depth of the "
                         \o "query, querying fewer relationships or using " \o Tick
                         \o "first" \o Tick \o " to return smaller collections"
                /\ e.v = "TooDeep" =>
                    /\ C10_Numbers(m) = <<ToString(e.max)>>
                    /\ C10_Mitigations(m) = {}
                    /\ Str(m) = "query has a depth that exceeds the limit of " \o Tick
                         \o ToString(e.max) \o Tick

C10_Witness ==
    /\ Polled
    /\ IsExecutionError(result)
    /\ result.err.q.e = [v |-> "TooComplex", n |-> 100, max |-> 7]
    /\ C10_Numbers(MessageOf(responses[1])) = <<"100", "7">>

C10_WitnessTooDeep ==
    /\ Polled
    /\ IsExecutionError(result)
    /\ result.err.q.e = [v |-> "TooDeep", max |-> 5]
    /\ C10_Numbers(MessageOf(responses[1])) = <<"5">>


(* C11: an outcome has exactly one status and exactly one body text: the    *)
(* responses built from the same outcome, whatever was built before them,   *)
(* have the same status and the same body, the order of the "line" and      *)
(* "column" keys of a "locations" entry included.                           *)
C11_OneBodyPerOutcome ==
    \A i, j \in 1..Len(responses) :
        /\ responses[i].status = responses[j].status
        /\ responses[i].body = responses[j].body

\* what does hold: the bodies of one outcome differ in nothing but the order
\* of the two keys of the location
C11_SameJson ==
    \A i, j \in 1..Len(responses) :
        /\ responses[i].status = responses[j].status
        /\ \/ responses[i].body = responses[j].body
           \/ /\ IsQueryError(result)
              /\ LET a == ErrorObject(responses[i])
                     b == ErrorObject(responses[j])
                 IN  /\ Get(a, "message") = Get(b, "message")
                     /\ Keys(a) = {"locations", "message"} /\ Keys(b) = Keys(a)
                     /\ \A k \in {"line", "column"} :
                            Get(Get(a, "locations").items[1], k)
                              = Get(Get(b, "locations").items[1], k)


\* The text left of a parse failure's diagnostic when the label is removed
\* and the white space at its ends trimmed
C12_Text(d) == Trim(Replace(d, Label))

\* its first line, the part of it before its last colon and the part after
C12_FirstLine(text) ==
    IF HasLineBreak(text)
    THEN SubSeq(text, 1, (CHOOSE n \in 1..Len(text) :
                             text[n] = NL /\ \A j \in 1..(n - 1) : text[j] # NL) - 1)
    ELSE text

C12_HasColon(first) == \E c \in 1..Len(first) : first[c] = ":"

C12_LastColon(first) ==
    CHOOSE c \in 1..Len(first) : first[c] = ":" /\ \A j \in (c + 1)..Len(first) : first[j] # ":"

C12_Left(first) == SubSeq(first, 1, C12_LastColon(first) - 1)
C12_Right(first) == SubSeq(first, C12_LastColon(first) + 1, Len(first))

C12_HasDigit(t) == \E i \in 1..Len(t) : IsNumeric(t[i])

\* the cases the claim names
C12_NamedCases(d) ==
    LET text == C12_Text(d)
        first == C12_FirstLine(text)
    IN  \/ ~C12_HasColon(first)
        \/ ~C12_HasDigit(C12_Left(first))
        \/ ~C12_HasDigit(C12_Right(first))
        \/ ~HasLineBreak(text)

\* the numeric characters of t are not the decimal digits of a u32
C12_NoU32(t) ==
    LET num == SelectSeq(t, IsNumeric)
    IN  \/ \E i \in 1..Len(num) : num[i] = Sup2
        \/ ~FitsU32(StripZeros(num))

(* C12 as stated: building a response aborts, with no response, exactly for *)
(* a parse failure whose diagnostic, label removed and trimmed, has no      *)
(* colon in its first line, no digit left or right of the last colon of its *)
(* first line, or no second line; for every other outcome a response is     *)
(* built.                                                                   *)
C12_Original ==
    pc \in {"done", "panicked"} =>
        /\ pc = "panicked" <=> (IsParseError(result) /\ C12_NamedCases(result.err.q.e))
        /\ pc = "panicked" => responses = <<>>
        /\ pc = "done" => responses # <<>>

(* C12: building a response aborts, with no response, exactly for a parse   *)
(* failure whose diagnostic, label removed and trimmed, has no colon in its *)
(* first line, no digit left or right of the last colon of its first line,  *)
(* numeric characters on either side of that colon that are not the decimal *)
(* digits of a u32 (a numeric character that is no ASCII digit, a value     *)
(* above u32::MAX), or no second line; for every other outcome a response   *)
(* is built.                                                                *)
C12_AbortCases ==
    pc \in {"done", "panicked"} =>
        /\ pc = "panicked" <=>
             /\ IsParseError(result)
             /\ \/ C12_NamedCases(result.err.q.e)
                \/ C12_NoU32(C12_Left(C12_FirstLine(C12_Text(result.err.q.e))))
                \/ C12_NoU32(C12_Right(C12_FirstLine(C12_Text(result.err.q.e))))
        /\ pc = "panicked" => responses = <<>>
        /\ pc = "done" => responses # <<>>

\* the abort on a line number above u32::MAX
C12_Witness ==
    /\ pc = "panicked"
    /\ responses = <<>>
    /\ IsParseError(result)
    /\ result.err.q.e = BigNumber \o <<"1", ":", "2", NL, "x">>

C12_WitnessBuilt ==
    /\ Polled
    /\ IsParseError(result)
    /\ result.err.q.e = <<"1", ":", "2", NL, "x">>


(* C13: a poll that returns returns Ready with a response on that call: it  *)
(* adds one response, leaves the stored outcome unchanged, and the response *)
(* has the status and the body of the responses the earlier polls of the    *)
(* same GraphQLResponse returned.                                           *)
C13_PollIsAFunction ==
    [][(pc \in {"ready", "done"} /\ pc' = "done") =>
            /\ result' = result
            /\ Len(responses') = Len(responses) + 1
            /\ SubSeq(responses', 1, Len(responses)) = responses
            /\ \A i \in 1..Len(responses) :
                /\ responses'[Len(responses')].status = responses[i].status
                /\ responses'[Len(responses')].body = responses[i].body]_vars

\* what does hold: every poll that returns adds a response and leaves the
\* outcome unchanged, and the responses have the same status
C13_PollReturnsReady ==
    [][(pc \in {"ready", "done"} /\ pc' = "done") =>
            /\ result' = result
            /\ Len(responses') = Len(responses) + 1
            /\ SubSeq(responses', 1, Len(responses)) = responses
            /\ \A i \in 1..Len(responses) :
                responses'[Len(responses')].status = responses[i].status]_vars

====
